---- MODULE Spec2Model ----
(***************************************************************************)
(* A model of the My_RAG question-answering pipeline:                      *)
(*   chunker.py    chunk_documents                                         *)
(*   retriever.py  RetrieverWrapper.retrieve                               *)
(*   generator.py  deduplicate_context, optimize_context, generate_answer  *)
(*   main.py       the batch loop of main                                  *)
(*                                                                         *)
(* Text is a sequence of one-character strings, so that str.strip(),       *)
(* len() and slicing are computed and not assumed.  Four specifications    *)
(* share the variables; each leaves the variables of the other three at    *)
(* their idle values:                                                      *)
(*   SpecCtx    deduplicate_context / optimize_context on drawn inputs     *)
(*   SpecGen    one call of generate_answer                                *)
(*   SpecMain   the query loop of main, calling retrieve and               *)
(*              generate_answer for every query                            *)
(*   SpecChunk  chunk_documents on drawn documents                         *)
(***************************************************************************)
EXTENDS Integers, Sequences, FiniteSets, TLC

VARIABLES
    \* ---- optimize_context / deduplicate_context (SpecCtx)
    ctx_in,          \* the chunks argument
    max_length,      \* the max_length argument: None or Some(n)
    unique_chunks,   \* what deduplicate_context returned
    context_parts,   \* what optimize_context returned
    reassembled,     \* optimize_context applied to context_parts again
    ctx_pc,
    \* ---- generate_answer (SpecGen, SpecMain)
    query,           \* the query argument
    context_chunks,  \* the context_chunks argument
    max_retries,     \* the max_retries argument
    pc,              \* position inside generate_answer
    attempt,         \* the loop variable of the retry loop
    last_error,      \* generator.py:154
    result,          \* the value generate_answer returned
    messages,        \* the context passages put into the prompt (generator.py:144)
    events,          \* observed calls of client.chat and time.sleep, in order
    \* ---- main (SpecMain)
    queries,         \* the loaded query records, updated in place
    qi,              \* index of the query the loop is at
    retrieved_chunks,
    main_pc,
    exc,             \* the exception that left main, if any
    saved,           \* what save_jsonl wrote: None or Some(records)
    gen_log,         \* per processed query: what generate_answer was given and returned
    \* ---- chunk_documents (SpecChunk)
    docs,
    language,
    chunks,
    chunk_pc

vars == <<ctx_in, max_length, unique_chunks, context_parts, reassembled, ctx_pc,
          query, context_chunks, max_retries, pc, attempt, last_error, result,
          messages, events, queries, qi, retrieved_chunks, main_pc, exc, saved,
          gen_log,
          docs, language, chunks, chunk_pc>>

ctxVars == <<ctx_in, max_length, unique_chunks, context_parts, reassembled, ctx_pc>>
genVars == <<query, context_chunks, max_retries, pc, attempt, last_error, result,
             messages, events>>
mainVars == <<queries, qi, retrieved_chunks, main_pc, exc, saved, gen_log>>
chunkVars == <<docs, language, chunks, chunk_pc>>

(***************************************************************************)
(* Text                                                                    *)
(***************************************************************************)
None == <<>>
Some(n) == <<n>>

\* The whitespace characters of the model's alphabet (str.strip() removes these).
Whitespace == {" ", "\n"}

Rep(c, n) == [i \in 1..n |-> c]

RECURSIVE LStrip(_)
LStrip(s) == IF s # <<>> /\ Head(s) \in Whitespace THEN LStrip(Tail(s)) ELSE s

RECURSIVE RStrip(_)
RStrip(s) ==
    IF s # <<>> /\ s[Len(s)] \in Whitespace THEN RStrip(SubSeq(s, 1, Len(s) - 1)) ELSE s

\* str.strip()
Strip(s) == RStrip(LStrip(s))

\* content[:n] for n >= 0
Prefix(s, n) == SubSeq(s, 1, IF n < Len(s) THEN n ELSE Len(s))

Ellipsis == <<".", ".", ".">>

RECURSIVE SumLen(_)
SumLen(parts) == IF parts = <<>> THEN 0 ELSE Len(Head(parts)) + SumLen(Tail(parts))

RECURSIVE SeqsUpTo(_, _)
SeqsUpTo(S, n) ==
    IF n = 0 THEN {<<>>}
    ELSE LET shorter == SeqsUpTo(S, n - 1)
         IN  shorter \cup {Append(s, x) : s \in {t \in shorter : Len(t) = n - 1}, x \in S}

(***************************************************************************)
(* generator.py: deduplicate_context and optimize_context                  *)
(***************************************************************************)
\* `remaining > 100` at generator.py:37
MinMeaningful == 100

MaxChunks == 3

Chunk(text) == [page_content |-> text]

RECURSIVE DedupLoop(_, _, _)
DedupLoop(rest, seen, unique) ==
    IF rest = <<>> THEN unique
    ELSE LET chunk == Head(rest)
             content == Strip(chunk.page_content)
         IN  IF content # <<>> /\ content \notin seen
             THEN DedupLoop(Tail(rest), seen \cup {content}, Append(unique, chunk))
             ELSE DedupLoop(Tail(rest), seen, unique)

\* deduplicate_context comparing the raw page_content instead of the trimmed one
\* (the .strip() of generator.py:17 left out).
RECURSIVE DedupLoopRaw(_, _, _)
DedupLoopRaw(rest, seen, unique) ==
    IF rest = <<>> THEN unique
    ELSE LET chunk == Head(rest)
             content == chunk.page_content
         IN  IF content # <<>> /\ content \notin seen
             THEN DedupLoopRaw(Tail(rest), seen \cup {content}, Append(unique, chunk))
             ELSE DedupLoopRaw(Tail(rest), seen, unique)

deduplicate_context_raw(cs) == DedupLoopRaw(cs, {}, <<>>)

\* deduplicate_context without the `content and` test of generator.py:18: a
\* passage with empty trimmed text is kept like any other.
RECURSIVE DedupLoopKeepBlank(_, _, _)
DedupLoopKeepBlank(rest, seen, unique) ==
    IF rest = <<>> THEN unique
    ELSE LET chunk == Head(rest)
             content == Strip(chunk.page_content)
         IN  IF content \notin seen
             THEN DedupLoopKeepBlank(Tail(rest), seen \cup {content},
                                     Append(unique, chunk))
             ELSE DedupLoopKeepBlank(Tail(rest), seen, unique)

deduplicate_context_keep_blank(cs) == DedupLoopKeepBlank(cs, {}, <<>>)

deduplicate_context(cs) == DedupLoop(cs, {}, <<>>)

RECURSIVE LimitLoop(_, _, _, _)
LimitLoop(rest, maxlen, parts, total_length) ==
    IF rest = <<>> THEN parts
    ELSE LET content == Head(rest).page_content
         IN  IF maxlen # None /\ total_length + Len(content) > maxlen[1]
             THEN LET remaining == maxlen[1] - total_length
                  IN  IF remaining > MinMeaningful
                      THEN Append(parts, Prefix(content, remaining) \o Ellipsis)
                      ELSE parts
             ELSE LimitLoop(Tail(rest), maxlen, Append(parts, content),
                            total_length + Len(content))

optimize_context(cs, maxlen) == LimitLoop(deduplicate_context(cs), maxlen, <<>>, 0)

\* The passages the inputs are drawn from: empty and whitespace-only text, text
\* that differs only in surrounding whitespace, and text longer than the
\* truncation threshold.
Passages ==
    { <<>>, <<" ">>, <<"a">>, <<" ", "a">>, <<"a", " ">>, Ellipsis,
      Rep(" ", MinMeaningful + 1) \o <<"z">>,
      Rep("b", MinMeaningful + 20) }

\* Budgets around 0, around the threshold, and around the long passages.
Budgets ==
    (0 .. 4) \cup (MinMeaningful .. MinMeaningful + 5)
             \cup (MinMeaningful + 19 .. MinMeaningful + 24)

CtxInputs == {[i \in DOMAIN s |-> Chunk(s[i])] : s \in SeqsUpTo(Passages, MaxChunks)}

IdleCtx ==
    /\ ctx_in = <<>> /\ max_length = None /\ unique_chunks = <<>>
    /\ context_parts = <<>> /\ reassembled = <<>> /\ ctx_pc = "idle"

NoResult == [kind |-> "none", text |-> <<>>, error |-> "None", attempts |-> 0]

IdleGen ==
    /\ query = <<>> /\ context_chunks = <<>> /\ max_retries = 0 /\ pc = "idle"
    /\ attempt = 0 /\ last_error = "None" /\ result = NoResult
    /\ messages = <<>> /\ events = <<>>

IdleMain ==
    /\ queries = <<>> /\ qi = 0 /\ retrieved_chunks = <<>> /\ main_pc = "idle"
    /\ exc = "none" /\ saved = None /\ gen_log = <<>>

IdleChunk ==
    /\ docs = <<>> /\ language = "en" /\ chunks = <<>> /\ chunk_pc = "idle"

InitCtx ==
    /\ ctx_in \in CtxInputs
    /\ max_length \in {None} \cup {Some(n) : n \in Budgets}
    /\ unique_chunks = <<>> /\ context_parts = <<>> /\ reassembled = <<>>
    /\ ctx_pc = "start"
    /\ IdleGen /\ IdleMain /\ IdleChunk

\* deduplicate_context(chunks)
DeduplicateContext ==
    /\ ctx_pc = "start"
    /\ unique_chunks' = deduplicate_context(ctx_in)
    /\ ctx_pc' = "deduplicated"
    /\ UNCHANGED <<ctx_in, max_length, context_parts, reassembled>>
    /\ UNCHANGED <<genVars, mainVars, chunkVars>>

\* optimize_context(chunks, max_length)
OptimizeContext ==
    /\ ctx_pc = "start"
    /\ context_parts' = optimize_context(ctx_in, max_length)
    /\ ctx_pc' = "optimized"
    /\ UNCHANGED <<ctx_in, max_length, unique_chunks, reassembled>>
    /\ UNCHANGED <<genVars, mainVars, chunkVars>>

\* optimize_context applied to its own output, each passage wrapped as a chunk
\* again, under the same max_length.
ReassembleContext ==
    /\ ctx_pc = "optimized"
    /\ reassembled' =
           optimize_context([i \in DOMAIN context_parts |-> Chunk(context_parts[i])],
                            max_length)
    /\ ctx_pc' = "reassembled"
    /\ UNCHANGED <<ctx_in, max_length, unique_chunks, context_parts>>
    /\ UNCHANGED <<genVars, mainVars, chunkVars>>

NextCtx == DeduplicateContext \/ OptimizeContext \/ ReassembleContext

SpecCtx == InitCtx /\ [][NextCtx]_vars

(***************************************************************************)
(* generator.py: generate_answer                                           *)
(*                                                                         *)
(* One action per call that leaves the function: load_ollama_config,       *)
(* client.chat, time.sleep.  Everything generate_answer does between two   *)
(* such calls belongs to the action of the earlier one.  The prompt text   *)
(* (detect_language, create_messages) decides no branch; only the context  *)
(* passages placed in it are kept, in `messages`.                          *)
(***************************************************************************)
\* max_retries=3 at generator.py:124
DefaultMaxRetries == 3

MaxRetries == 3
MaxContext == 2

\* What generate_answer returns, by the text it formats:
\*   answer        the stripped response                       (176)
\*   refused       "Unable to answer."                         (132, 141)
\*   empty_query   "Error: Empty query provided."              (129)
\*   config_error  "Error: Failed to load configuration - e"   (150)
\*   failed        "Error: Failed to generate answer after n attempts - e" (185)
Returned(kind, text, error, n) ==
    [kind |-> kind, text |-> text, error |-> error, attempts |-> n]

Refusal == Returned("refused", <<>>, "None", 0)

ChatOk(resp) == [op |-> "chat_ok", text |-> resp, error |-> "None"]
ChatFailed(e) == [op |-> "chat_fail", text |-> <<>>, error |-> e]
Slept == [op |-> "sleep", text |-> <<>>, error |-> "None"]

\* The contents the chat response may carry, and the errors the config load and
\* the chat call may raise.
Responses == { <<>>, <<" ">>, <<"o", "k">>, <<" ", "o", "k", "\n">> }
ChatErrors == {"ConnectionError", "ResponseError"}
ConfigErrors == {"FileNotFoundError", "AssertionError"}
EmptyResponse == "ValueError: Empty response from Ollama"

\* `attempt > max_retries - 1`: the comparison of generator.py:180 turned around
ShouldSleepFlipped(att, maxr) == att > maxr - 1

\* `attempt <= max_retries - 1`: the comparison of generator.py:180 off by one
ShouldSleepOffByOne(att, maxr) == att <= maxr - 1

\* generator.py:180
ShouldSleep(att, maxr) == att < maxr - 1

\* generator.py:128-144
GA_Validate ==
    /\ pc = "start"
    /\ IF query = <<>> \/ Strip(query) = <<>>
       THEN /\ result' = Returned("empty_query", <<>>, "None", 0)
            /\ pc' = "done"
            /\ messages' = <<>>
       ELSE IF context_chunks = <<>>
       THEN /\ result' = Refusal
            /\ pc' = "done"
            /\ messages' = <<>>
       ELSE LET parts == optimize_context(context_chunks, None)
            IN  IF parts = <<>>
                THEN /\ result' = Refusal
                     /\ pc' = "done"
                     /\ messages' = <<>>
                ELSE /\ result' = result
                     /\ pc' = "load_config"
                     /\ messages' = parts
    /\ UNCHANGED <<query, context_chunks, max_retries, attempt, last_error, events>>
    /\ UNCHANGED <<ctxVars, mainVars, chunkVars>>

\* generator.py:147-150: load_ollama_config raises
GA_ConfigFails ==
    /\ pc = "load_config"
    /\ \E e \in ConfigErrors : result' = Returned("config_error", <<>>, e, 0)
    /\ pc' = "done"
    /\ UNCHANGED <<query, context_chunks, max_retries, attempt, last_error, messages,
                   events>>
    /\ UNCHANGED <<ctxVars, mainVars, chunkVars>>

\* generator.py:147-156: the configuration loads and the retry loop is entered
\* (and left at once, to line 185, when max_retries is 0)
GA_ConfigLoaded ==
    /\ pc = "load_config"
    /\ last_error' = "None"
    /\ attempt' = 0
    /\ IF 0 < max_retries
       THEN pc' = "chat" /\ result' = result
       ELSE pc' = "done" /\ result' = Returned("failed", <<>>, "None", max_retries)
    /\ UNCHANGED <<query, context_chunks, max_retries, messages, events>>
    /\ UNCHANGED <<ctxVars, mainVars, chunkVars>>

\* generator.py:156, 185: the next iteration of `for attempt in
\* range(max_retries)`, or the return after the loop
NextAttempt ==
    IF attempt + 1 < max_retries
    THEN attempt' = attempt + 1 /\ pc' = "chat" /\ result' = result
    ELSE /\ attempt' = attempt
         /\ pc' = "done"
         /\ result' = Returned("failed", <<>>, last_error', max_retries)

\* generator.py:178-182: the except block of attempt `attempt`
AttemptFailed(e) ==
    /\ last_error' = e
    /\ events' = Append(events, ChatFailed(e))
    /\ IF ShouldSleep(attempt, max_retries)
       THEN pc' = "sleep" /\ attempt' = attempt /\ result' = result
       ELSE NextAttempt

\* generator.py:158-176: client.chat returns a response
GA_ChatReturns ==
    /\ pc = "chat"
    /\ \E resp \in Responses :
         LET answer == Strip(resp)
         IN  IF answer = <<>>
             THEN AttemptFailed(EmptyResponse)
             ELSE /\ result' = Returned("answer", answer, "None", 0)
                  /\ pc' = "done"
                  /\ events' = Append(events, ChatOk(resp))
                  /\ UNCHANGED <<attempt, last_error>>
    /\ UNCHANGED <<query, context_chunks, max_retries, messages>>
    /\ UNCHANGED <<ctxVars, mainVars, chunkVars>>

\* generator.py:158-168: client.chat raises
GA_ChatRaises ==
    /\ pc = "chat"
    /\ \E e \in ChatErrors : AttemptFailed(e)
    /\ UNCHANGED <<query, context_chunks, max_retries, messages>>
    /\ UNCHANGED <<ctxVars, mainVars, chunkVars>>

\* generator.py:181-182: time.sleep(1) returns, then `continue`
GA_Sleep ==
    /\ pc = "sleep"
    /\ events' = Append(events, Slept)
    /\ last_error' = last_error
    /\ NextAttempt
    /\ UNCHANGED <<query, context_chunks, max_retries, messages>>
    /\ UNCHANGED <<ctxVars, mainVars, chunkVars>>

GenerateAnswer ==
    \/ GA_Validate
    \/ GA_ConfigFails
    \/ GA_ConfigLoaded
    \/ GA_ChatReturns
    \/ GA_ChatRaises
    \/ GA_Sleep

GenQueries == { <<>>, <<" ">>, <<"q">>, <<" ", "q">> }
GenPassages == { <<>>, <<" ">>, <<"a">>, <<"a", " ">> }

InitGen ==
    /\ query \in GenQueries
    /\ context_chunks \in
           {[i \in DOMAIN s |-> Chunk(s[i])] : s \in SeqsUpTo(GenPassages, MaxContext)}
    /\ max_retries \in 0 .. MaxRetries
    /\ pc = "start"
    /\ attempt = 0 /\ last_error = "None" /\ result = NoResult
    /\ messages = <<>> /\ events = <<>>
    /\ IdleCtx /\ IdleMain /\ IdleChunk

SpecGen == InitGen /\ [][GenerateAnswer]_vars

(***************************************************************************)
(* retriever.py: RetrieverWrapper.retrieve, and main.py: the query loop    *)
(*                                                                         *)
(* SpecMain starts where the loop of main.py:27 starts: the documents are  *)
(* chunked and the retriever is built.  What the ensemble retriever finds  *)
(* for a query is an input: it raises, or returns a ranked list of chunks  *)
(* of the corpus (possibly none).                                          *)
(***************************************************************************)
\* top_k=1 at retriever.py:76
TopK == 1

MaxQueries == 2
MaxRetrieved == 2

\* chunks of the corpus: chunk_documents yields stripped, non-empty text
Corpus == { Chunk(<<"a">>), Chunk(<<"b">>) }

\* retriever.py:77-86, given what self.retriever.invoke(query) returned
retrieve(found, top_k) ==
    [i \in 1 .. (IF top_k < Len(found) THEN top_k ELSE Len(found)) |->
        [page_content |-> found[i].page_content]]

QueryContents == { <<>>, <<"q">> }

\* A query record {query: {query_id, content}}, with or without a "prediction"
\* key: prediction is None or Some of {content, references}.
QueryRecord(id, content, prediction) ==
    [query |-> [query_id |-> id, content |-> content], prediction |-> prediction]

BlankPrediction == [content |-> NoResult, references |-> <<>>]

QueryBatches ==
    UNION { [1 .. n -> QueryContents \X {None, Some(BlankPrediction)}] :
            n \in 0 .. MaxQueries }

InitMain ==
    /\ \E b \in QueryBatches :
          queries = [i \in DOMAIN b |-> QueryRecord(i, b[i][1], b[i][2])]
    /\ qi = 1
    /\ retrieved_chunks = <<>>
    /\ main_pc = "loop"
    /\ exc = "none" /\ saved = None /\ gen_log = <<>>
    /\ IdleGen /\ IdleCtx /\ IdleChunk

\* the frame of generate_answer is gone
GenReturns ==
    /\ query' = <<>> /\ context_chunks' = <<>> /\ max_retries' = 0 /\ pc' = "idle"
    /\ attempt' = 0 /\ last_error' = "None" /\ result' = NoResult
    /\ messages' = <<>> /\ events' = <<>>

\* main.py:29-31: retriever.retrieve raises (retriever.py:77); nothing in main
\* catches it.
MainRetrieveRaises ==
    /\ main_pc = "loop" /\ qi <= Len(queries)
    /\ main_pc' = "aborted"
    /\ exc' = "RetrieverError"
    /\ UNCHANGED <<queries, qi, retrieved_chunks, saved, gen_log>>
    /\ UNCHANGED <<genVars, ctxVars, chunkVars>>

\* main.py:29-36: retriever.retrieve returns, and generate_answer is called with
\* the default max_retries.
MainRetrieveReturns ==
    /\ main_pc = "loop" /\ qi <= Len(queries)
    /\ \E found \in SeqsUpTo(Corpus, MaxRetrieved) :
         /\ retrieved_chunks' = retrieve(found, TopK)
         /\ context_chunks' = retrieve(found, TopK)
    /\ query' = queries[qi].query.content
    /\ max_retries' = DefaultMaxRetries
    /\ pc' = "start"
    /\ main_pc' = "generate"
    /\ UNCHANGED <<attempt, last_error, result, messages, events>>
    /\ UNCHANGED <<queries, qi, exc, saved, gen_log>>
    /\ UNCHANGED <<ctxVars, chunkVars>>

\* main.py:36-39: generate_answer has returned; the answer and the reference
\* are written into the query record.  query["prediction"] raises KeyError for
\* a record without that key, retrieved_chunks[0] raises IndexError when
\* nothing was retrieved; nothing in main catches either.
MainWrite ==
    /\ main_pc = "generate" /\ pc = "done"
    /\ gen_log' = Append(gen_log, [answer |-> result, passed |-> messages])
    /\ LET q == queries[qi]
       IN  IF q.prediction = None
           THEN /\ main_pc' = "aborted" /\ exc' = "KeyError"
                /\ UNCHANGED <<queries, qi>>
           ELSE LET answered ==
                        [q EXCEPT !.prediction =
                            Some([content |-> result,
                                  references |-> q.prediction[1].references])]
                    referenced ==
                        [q EXCEPT !.prediction =
                            Some([content |-> result,
                                  references |-> <<retrieved_chunks[1].page_content>>])]
                IN  IF retrieved_chunks = <<>>
                    THEN /\ queries' = [queries EXCEPT ![qi] = answered]
                         /\ main_pc' = "aborted" /\ exc' = "IndexError"
                         /\ qi' = qi
                    ELSE /\ queries' = [queries EXCEPT ![qi] = referenced]
                         /\ main_pc' = "loop" /\ exc' = exc
                         /\ qi' = qi + 1
    /\ retrieved_chunks' = <<>>
    /\ GenReturns
    /\ UNCHANGED saved
    /\ UNCHANGED <<ctxVars, chunkVars>>

\* main.py:41: the loop is over, save_jsonl(output_path, queries)
MainSave ==
    /\ main_pc = "loop" /\ qi > Len(queries)
    /\ saved' = Some(queries)
    /\ main_pc' = "done"
    /\ UNCHANGED <<queries, qi, retrieved_chunks, exc, gen_log>>
    /\ UNCHANGED <<genVars, ctxVars, chunkVars>>

NextMain ==
    \/ MainRetrieveRaises
    \/ MainRetrieveReturns
    \/ GenerateAnswer
    \/ MainWrite
    \/ MainSave

SpecMain == InitMain /\ [][NextMain]_vars

(***************************************************************************)
(* chunker.py: chunk_documents                                             *)
(*                                                                         *)
(* A document is a mapping; of its keys the model keeps "content" (absent, *)
(* a string, or a value that is no string), "language" (None when absent)  *)
(* and one more metadata key, "doc_id".                                    *)
(***************************************************************************)
\* chunk_size=1000 at chunker.py:3
ChunkSize == 1000

MaxDocs == 3

\* splitter.split_text(text) of chunker.py:39, for a text shorter than
\* chunk_size.  Both splitters are built with keep_separator="end" and
\* strip_whitespace=True (chunker.py:9-23): whatever separator cuts such a
\* text, its pieces are all smaller than chunk_size and are merged back, in
\* order and with their separators, into one chunk; that chunk is stripped of
\* surrounding whitespace, and dropped when nothing is left.  So the choice
\* between splitter_en and splitter_zh (chunker.py:33-36) changes nothing here.
split_text(text) ==
    LET merged == Strip(text)
    IN  IF merged = <<>> THEN <<>> ELSE <<merged>>

\* chunker.py:41-48: the chunks of one document
DocChunks(doc) ==
    LET doc_chunks == split_text(doc.content.text)
    IN  [i \in DOMAIN doc_chunks |->
            [page_content |-> doc_chunks[i],
             metadata |-> [language |-> doc.language,
                           doc_id |-> doc.doc_id,
                           chunk_index |-> i - 1]]]

\* chunker.py:28 without its last conjunct, `'language' in doc`
HasTextNoLanguageTest(doc) == doc.content.kind = "str"

\* chunker.py:28
HasText(doc) == doc.content.kind = "str" /\ doc.language # None

\* chunker.py:38
LanguageMatches(doc, lang) == doc.language[1] = lang

\* chunker.py:27-48.  doc['language'] (chunker.py:30) raises KeyError for a
\* document without that key.
RECURSIVE ChunkLoop(_, _, _)
ChunkLoop(rest, lang, acc) ==
    IF rest = <<>> THEN [raised |-> "none", chunks |-> acc]
    ELSE LET doc == Head(rest)
         IN  IF HasText(doc)
             THEN IF doc.language = None
                  THEN [raised |-> "KeyError", chunks |-> acc]
                  ELSE IF LanguageMatches(doc, lang)
                       THEN ChunkLoop(Tail(rest), lang, acc \o DocChunks(doc))
                       ELSE ChunkLoop(Tail(rest), lang, acc)
             ELSE ChunkLoop(Tail(rest), lang, acc)

chunk_documents(ds, lang) == ChunkLoop(ds, lang, <<>>)

DocTexts == { <<" ">>, <<"a">>, <<"a", " ">> }
DocContents ==
    {[kind |-> "absent", text |-> <<>>], [kind |-> "other", text |-> <<>>]}
        \cup {[kind |-> "str", text |-> t] : t \in DocTexts}
DocLanguages == {None, Some("en"), Some("zh")}

InitChunk ==
    /\ \E n \in 0 .. MaxDocs :
         \E d \in [1 .. n -> DocContents \X DocLanguages] :
            docs = [i \in 1 .. n |->
                      [content |-> d[i][1], language |-> d[i][2], doc_id |-> i]]
    /\ \A i \in DOMAIN docs : Len(docs[i].content.text) < ChunkSize
    /\ language \in {"en", "zh"}
    /\ chunks = <<>>
    /\ chunk_pc = "start"
    /\ IdleCtx /\ IdleGen /\ IdleMain

\* chunk_documents(docs, language), with the default chunk_size and
\* chunk_overlap as main.py:18 calls it
ChunkDocuments ==
    /\ chunk_pc = "start"
    /\ LET r == chunk_documents(docs, language)
       IN  /\ chunks' = r.chunks
           /\ chunk_pc' = IF r.raised = "none" THEN "done" ELSE "raised"
    /\ UNCHANGED <<docs, language>>
    /\ UNCHANGED <<ctxVars, genVars, mainVars>>

NextChunk == ChunkDocuments

SpecChunk == InitChunk /\ [][NextChunk]_vars

(***************************************************************************)
(* Properties of generate_answer                                           *)
(***************************************************************************)
Ops(op) == {i \in DOMAIN events : events[i].op = op}
Calls == Cardinality(Ops("chat_ok") \cup Ops("chat_fail"))
Sleeps == Cardinality(Ops("sleep"))

BlankQuery == Strip(query) = <<>>

\* the chunk list is empty, or every chunk's trimmed text is empty
EmptyContext ==
    \A i \in DOMAIN context_chunks : Strip(context_chunks[i].page_content) = <<>>

\* C1: when a generation call succeeds after k failed ones, generate_answer
\* has returned the (stripped) answer of that call, k is less than max_retries,
\* and what was observed is exactly k times a failed call followed by a delay,
\* and then the successful call: k+1 calls, k delays, every delay between a
\* failed attempt and the next attempt.
C1_SuccessAfterKFailures ==
    Ops("chat_ok") # {} =>
        LET n == Len(events)
            k == (n - 1) \div 2
        IN  /\ n = 2 * k + 1
            /\ \A i \in 1 .. k :
                  events[2 * i - 1].op = "chat_fail" /\ events[2 * i].op = "sleep"
            /\ events[n].op = "chat_ok"
            /\ Calls = k + 1 /\ Sleeps = k
            /\ k < max_retries
            /\ pc = "done"
            /\ result = Returned("answer", Strip(events[n].text), "None", 0)

\* max_retries = 3, two failed calls, two delays, and the third call's answer
\* returned.
C1_Witness ==
    /\ max_retries = DefaultMaxRetries
    /\ pc = "done"
    /\ result.kind = "answer"
    /\ Calls = 3 /\ Sleeps = 2
    /\ events[1].error # events[3].error

\* C2: never more than max_retries generation calls are made; and when every
\* call has failed and generate_answer is done, exactly max_retries calls were
\* made, the last thing observed is the final failed call (no delay after it),
\* there was one delay after each earlier call, and the value returned is the
\* "failed" error answer carrying max_retries and the final call's error.
C2_ExhaustedRetries ==
    /\ Calls <= max_retries
    /\ (pc = "done" /\ events # <<>> /\ Ops("chat_ok") = {}) =>
          LET n == Len(events)
          IN  /\ Calls = max_retries
              /\ Sleeps = max_retries - 1
              /\ events[n].op = "chat_fail"
              /\ result = Returned("failed", <<>>, events[n].error, max_retries)
    /\ result.kind = "failed" => (pc = "done" /\ Calls = max_retries)

\* max_retries = 3 and three failed calls, the last with another error than the
\* first.
C2_Witness ==
    /\ max_retries = DefaultMaxRetries
    /\ pc = "done"
    /\ result.kind = "failed"
    /\ Calls = 3 /\ Sleeps = 2
    /\ events[1].error # events[5].error
    /\ result.error = events[5].error

\* C3 (as claimed): for any query, an empty context ends in the refusal and no
\* generation call is made.
C3_EmptyContextRefused ==
    EmptyContext =>
        /\ Calls = 0
        /\ pc = "done" => result = Refusal

\* C3 (amended): for any query whose trimmed text is non-empty, an empty
\* context (no chunk, or only chunks whose trimmed text is empty) ends in the
\* refusal "Unable to answer." right after validation: the configuration is
\* not loaded and no generation call is made.
C3_EmptyContextRefusedForNonBlankQuery ==
    (pc # "idle" /\ ~BlankQuery /\ EmptyContext) =>
        /\ Calls = 0
        /\ pc \in {"start", "done"}
        /\ pc = "done" => result = Refusal

\* a non-blank query with chunks that are all whitespace has been refused
C3_Witness ==
    /\ ~BlankQuery
    /\ context_chunks # <<>>
    /\ EmptyContext
    /\ pc = "done"
    /\ result = Refusal

(***************************************************************************)
(* Properties of deduplicate_context and optimize_context                  *)
(***************************************************************************)
RECURSIVE SubseqAt(_, _, _)
SubseqAt(cs, I, i) ==
    IF i > Len(cs) THEN <<>>
    ELSE (IF i \in I THEN <<cs[i]>> ELSE <<>>) \o SubseqAt(cs, I, i + 1)

Trimmed(cs, i) == Strip(cs[i].page_content)

\* the positions whose trimmed text no earlier position has
FirstOccurrences(cs) ==
    {i \in DOMAIN cs : \A j \in 1 .. i - 1 : Trimmed(cs, j) # Trimmed(cs, i)}

NonBlank(cs) == {i \in DOMAIN cs : Trimmed(cs, i) # <<>>}

CtxOptimized == ctx_pc \in {"optimized", "reassembled"}

\* C6 (as claimed): whenever max_length is configured, the passages that
\* optimize_context returns, the truncated one counted with its "...", have a
\* total length of at most max_length.
C6_TotalWithinBudget ==
    (CtxOptimized /\ max_length # None) => SumLen(context_parts) <= max_length[1]

\* C7 (as claimed): assembling the output of optimize_context again, under the
\* same max_length, returns that output unchanged.
C7_ReassemblyUnchanged ==
    ctx_pc = "reassembled" => reassembled = context_parts

\* C10 (as claimed): the output of deduplicate_context is exactly the input's
\* passages whose trimmed text no earlier passage has, in input order.
C10_KeepsEveryFirstOccurrence ==
    ctx_pc = "deduplicated" =>
        unique_chunks = SubseqAt(ctx_in, FirstOccurrences(ctx_in), 1)

\* C10 (amended): the output of deduplicate_context is exactly the input's
\* passages whose trimmed text is non-empty and which no earlier passage has,
\* in input order; so no two output passages have equal trimmed text, and a
\* passage is removed only if its trimmed text is empty or an earlier passage
\* has it.
C10_KeepsFirstNonBlankOccurrence ==
    ctx_pc = "deduplicated" =>
        /\ unique_chunks =
               SubseqAt(ctx_in, FirstOccurrences(ctx_in) \cap NonBlank(ctx_in), 1)
        /\ \A i, j \in DOMAIN unique_chunks :
               i # j => Trimmed(unique_chunks, i) # Trimmed(unique_chunks, j)

\* deduplicate_context has run on passages that are equal only after trimming,
\* with a whitespace-only passage among them, and has removed some.
C10_Witness ==
    /\ ctx_pc = "deduplicated"
    /\ Len(unique_chunks) = 1
    /\ \E i, j, k \in DOMAIN ctx_in :
          /\ i < j
          /\ ctx_in[i] # ctx_in[j]
          /\ Trimmed(ctx_in, i) = Trimmed(ctx_in, j)
          /\ Trimmed(ctx_in, i) # <<>>
          /\ ctx_in[k].page_content # <<>>
          /\ Trimmed(ctx_in, k) = <<>>

(***************************************************************************)
(* Properties of main                                                      *)
(***************************************************************************)
MainEnded == main_pc \in {"done", "aborted"}

\* C4 (as claimed): a retrieval problem of one query (the retriever raising, or
\* no chunk retrieved) does not end the batch.
C4_RetrievalProblemStaysPerQuery ==
    main_pc = "aborted" => exc \notin {"RetrieverError", "IndexError"}

\* C5 (as claimed): when main has ended, the output is saved and holds one
\* record per input query, in input order, each with prediction.content the
\* answer generate_answer returned for it and prediction.references the
\* passages that were put into its prompt.
C5_OneOutputRecordPerQuery ==
    MainEnded =>
        /\ saved # None
        /\ Len(saved[1]) = Len(queries)
        /\ Len(gen_log) = Len(queries)
        /\ \A i \in DOMAIN saved[1] :
              /\ saved[1][i].query.query_id = i
              /\ saved[1][i].prediction # None
              /\ saved[1][i].prediction[1].content = gen_log[i].answer
              /\ saved[1][i].prediction[1].references = gen_log[i].passed

(***************************************************************************)
(* Properties of chunk_documents                                           *)
(***************************************************************************)
\* the documents chunk_documents is to chunk: a text and the target language
Eligible(i) ==
    /\ docs[i].content.kind = "str"
    /\ docs[i].language = Some(language)

\* the positions in `chunks` of the chunks of document i
ChunksOf(i) == {k \in DOMAIN chunks : chunks[k].metadata.doc_id = i}

RECURSIVE Concat(_)
Concat(texts) == IF texts = <<>> THEN <<>> ELSE Head(texts) \o Concat(Tail(texts))

TextsOf(i) ==
    LET own == SubseqAt(chunks, ChunksOf(i), 1)
    IN  [k \in DOMAIN own |-> own[k].page_content]

\* C8 (as claimed): the chunks of a document are non-empty and cover its text
\* without gaps: put together they are the text again, so the last chunk ends
\* at offset L.  (The texts here are shorter than chunk_size, a document has
\* at most one chunk and there is no overlap to account for.)
C8_ChunksReconstructText ==
    chunk_pc = "done" =>
        \A i \in DOMAIN docs :
            Eligible(i) =>
                /\ \A k \in ChunksOf(i) : chunks[k].page_content # <<>>
                /\ Concat(TextsOf(i)) = docs[i].content.text

\* C9: chunk_documents never raises; every chunk it returns comes from a
\* document that has a text and whose language is the target language; every
\* such document contributes the chunks of its text, numbered from 0, and the
\* chunks stand in document order; documents without a text or without a
\* language contribute nothing.
C9_OnlyTargetLanguageChunks ==
    /\ chunk_pc # "raised"
    /\ chunk_pc = "done" =>
          /\ \A k \in DOMAIN chunks :
                /\ chunks[k].metadata.doc_id \in DOMAIN docs
                /\ Eligible(chunks[k].metadata.doc_id)
                /\ chunks[k].metadata.language = Some(language)
          /\ \A k \in 1 .. Len(chunks) - 1 :
                chunks[k].metadata.doc_id <= chunks[k + 1].metadata.doc_id
          /\ \A i \in DOMAIN docs :
                Eligible(i) =>
                    /\ TextsOf(i) = split_text(docs[i].content.text)
                    /\ LET own == SubseqAt(chunks, ChunksOf(i), 1)
                       IN  \A k \in DOMAIN own : own[k].metadata.chunk_index = k - 1

\* chunk_documents has returned chunks for a batch that holds a document of the
\* target language, one of another language, and one without a language or
\* without a text.
C9_Witness ==
    /\ chunk_pc = "done"
    /\ chunks # <<>>
    /\ \E i, j, k \in DOMAIN docs :
          /\ Eligible(i)
          /\ docs[j].language \notin {None, Some(language)}
          /\ docs[j].content.kind = "str"
          /\ docs[k].language = None \/ docs[k].content.kind # "str"

====
